---- MODULE Spec2Model ----
(***************************************************************************)
(* JATS XML -> section/paragraph map extractor of                          *)
(* article_fetching/utils/get_text/my_custom.py, as a state machine.       *)
(*                                                                         *)
(* A Python str is a sequence of one-character strings, so that suffix     *)
(* tests on tags, whitespace splitting and key equality are computed.      *)
(* An Element is a record [tag, text, tail, children]; an element of the   *)
(* parsed tree is referred to by its path (child indices from the root),   *)
(* which stands for the identity of the Python object.                     *)
(***************************************************************************)
EXTENDS Integers, Sequences, FiniteSets, TLC

----------------------------------------------------------------------------
(* Strings *)

\* Characters str.split() / str.strip() treat as whitespace (those the model uses).
Whitespace == {" ", "\n"}

RECURSIVE Concat(_)
\* "".join(seqs) for a sequence of sequences (joined by halves).
Concat(ss) ==
  IF ss = <<>> THEN <<>>
  ELSE IF Len(ss) = 1 THEN ss[1]
  ELSE LET h == Len(ss) \div 2
       IN  Concat(SubSeq(ss, 1, h)) \o Concat(SubSeq(ss, h + 1, Len(ss)))

RECURSIVE JoinSp(_)
\* " ".join(parts)
JoinSp(parts) ==
  IF parts = <<>> THEN <<>>
  ELSE IF Len(parts) = 1 THEN parts[1]
  ELSE LET h == Len(parts) \div 2
       IN  JoinSp(SubSeq(parts, 1, h)) \o <<" ">>
           \o JoinSp(SubSeq(parts, h + 1, Len(parts)))

\* str.split() with no argument: the maximal runs of non-whitespace
\* characters, each from the position where it starts to where it ends.
Split(s) ==
  LET n == Len(s)
      IsStart(k) == s[k] \notin Whitespace /\ (k = 1 \/ s[k - 1] \in Whitespace)
      IsEnd(k) == s[k] \notin Whitespace /\ (k = n \/ s[k + 1] \in Whitespace)
      starts == SelectSeq([k \in 1..n |-> k], IsStart)
      ends == SelectSeq([k \in 1..n |-> k], IsEnd)
  IN  <<>> \o [j \in 1..Len(starts) |-> SubSeq(s, starts[j], ends[j])]

RECURSIVE LStrip(_)
LStrip(s) == IF s # <<>> /\ Head(s) \in Whitespace THEN LStrip(Tail(s)) ELSE s

RECURSIVE RStrip(_)
RStrip(s) ==
  IF s # <<>> /\ s[Len(s)] \in Whitespace THEN RStrip(SubSeq(s, 1, Len(s) - 1)) ELSE s

\* str.strip()
Strip(s) == LStrip(RStrip(s))

\* str.endswith(name)
EndsWith(s, name) ==
  /\ Len(name) <= Len(s)
  /\ SubSeq(s, Len(s) - Len(name) + 1, Len(s)) = name

RECURSIVE Digits(_)
\* str(i) for a natural number i
Digits(i) ==
  LET d == <<"0", "1", "2", "3", "4", "5", "6", "7", "8", "9">>
  IN  IF i < 10 THEN <<d[i + 1]>> ELSE Digits(i \div 10) \o <<d[(i % 10) + 1]>>

----------------------------------------------------------------------------
(* Tag names and string literals of the source *)

T_article == <<"a","r","t","i","c","l","e">>
T_front == <<"f","r","o","n","t">>
T_article_meta == <<"a","r","t","i","c","l","e","-","m","e","t","a">>
T_title_group == <<"t","i","t","l","e","-","g","r","o","u","p">>
T_article_title == <<"a","r","t","i","c","l","e","-","t","i","t","l","e">>
T_trans_title_group ==
  <<"t","r","a","n","s","-","t","i","t","l","e","-","g","r","o","u","p">>
T_trans_title == <<"t","r","a","n","s","-","t","i","t","l","e">>
T_abstract == <<"a","b","s","t","r","a","c","t">>
T_trans_abstract == <<"t","r","a","n","s","-","a","b","s","t","r","a","c","t">>
T_body == <<"b","o","d","y">>
T_sec == <<"s","e","c">>
T_title == <<"t","i","t","l","e">>
T_label == <<"l","a","b","e","l">>
T_p == <<"p">>
T_boxed_text == <<"b","o","x","e","d","-","t","e","x","t">>

K_Title == <<"T","i","t","l","e">>
K_Abstract == <<"A","b","s","t","r","a","c","t">>
K_BodyUntitled == <<"B","o","d","y"," ","(","u","n","t","i","t","l","e","d",")">>
K_UntitledSection ==
  <<"U","n","t","i","t","l","e","d"," ","S","e","c","t","i","o","n">>
K_subsection == <<" ","s","u","b","s","e","c","t","i","o","n">>

----------------------------------------------------------------------------
(* Elements *)

\* ET.Element: text and tail are <<>> where Python has None or "".
El(tag, text, children) ==
  [tag |-> tag, text |-> text, tail |-> <<>>, children |-> children]

WithTail(el, tail) == [el EXCEPT !.tail = tail]

\* "no element": the value of a failed find(), and of root before parsing.
None == <<0>>
NoElement == El(<<>>, <<>>, <<>>)

RECURSIVE At(_, _)
\* The element at path p below el.
At(el, p) == IF p = <<>> THEN el ELSE At(el.children[Head(p)], Tail(p))

\* list(el) as paths
Children(root, p) == [i \in 1..Len(At(root, p).children) |-> Append(p, i)]

RECURSIVE FindAllFrom(_, _, _)
\* Element.findall("./t1/t2/.."): exact tag match at each step, document order.
FindAllFrom(root, ps, tags) ==
  IF tags = <<>> THEN ps
  ELSE LET step(p) == SelectSeq(Children(root, p), LAMBDA q : At(root, q).tag = Head(tags))
           next == Concat([k \in 1..Len(ps) |-> step(ps[k])])
       IN  FindAllFrom(root, next, Tail(tags))

findall(root, p, tags) == FindAllFrom(root, <<p>>, tags)

\* Element.find(path): the first match or None.
find(root, p, tags) ==
  LET all == findall(root, p, tags) IN IF all = <<>> THEN None ELSE Head(all)

RECURSIVE Descendants(_, _)
\* Paths of all elements strictly below p, in document order.
Descendants(root, p) ==
  LET cs == Children(root, p)
  IN  Concat([k \in 1..Len(cs) |-> <<cs[k]>> \o Descendants(root, cs[k])])

----------------------------------------------------------------------------
(* Text utils *)

RECURSIVE walk(_)
\* _txt.walk: the parts appended for node n, in order.
walk(n) ==
  (IF n.text # <<>> THEN <<n.text>> ELSE <<>>)
  \o Concat([k \in 1..Len(n.children) |->
               walk(n.children[k])
               \o (IF n.children[k].tail # <<>> THEN <<n.children[k].tail>> ELSE <<>>)])

\* TxtEl without the whitespace normalisation.
TxtEl_raw(el) == JoinSp(walk(el))

\* TxtEl that collapses the runs of whitespace and keeps those at the ends.
TxtEl_noTrim(el) ==
  LET s == JoinSp(walk(el))
  IN  (IF s # <<>> /\ s[1] \in Whitespace THEN <<" ">> ELSE <<>>)
      \o JoinSp(Split(s))
      \o (IF s # <<>> /\ s[Len(s)] \in Whitespace THEN <<" ">> ELSE <<>>)

\* _txt applied to an element
TxtEl(el) == JoinSp(Split(JoinSp(walk(el))))

\* _txt(el) where el is a path or None
_txt(root, p) == IF p = None THEN <<>> ELSE TxtEl(At(root, p))

\* _is(el, name)
_is(el, name) == EndsWith(el.tag, name)

----------------------------------------------------------------------------
(* JATS parsing: pure helpers *)

\* _first_article that falls back to the root.
_first_article_rootFallback(root) ==
  LET ds == SelectSeq(Descendants(root, <<>>), LAMBDA q : At(root, q).tag = T_article)
  IN  IF ds = <<>> THEN <<>> ELSE Head(ds)

\* _first_article(root): <<>> is the path of the root itself.
_first_article(root) ==
  IF _is(root, T_article) THEN <<>>
  ELSE LET ds == SelectSeq(Descendants(root, <<>>), LAMBDA q : At(root, q).tag = T_article)
       IN  IF ds = <<>> THEN None ELSE Head(ds)

\* LevelParagraphOf without the skip of nested sections.
LevelParagraphOf_noSecSkip(node) ==
  IF _is(node, T_title) \/ _is(node, T_label) THEN <<>>
  ELSE LET txt == Strip(TxtEl(node)) IN IF txt # <<>> THEN <<txt>> ELSE <<>>

\* The tags _collect_level_paragraphs names as common blocks.
BlockTags ==
  { <<"p">>,
    <<"b","o","x","e","d","-","t","e","x","t">>,
    <<"d","i","s","p","-","q","u","o","t","e">>,
    <<"d","e","f","-","l","i","s","t">>,
    <<"l","i","s","t">>,
    <<"s","u","p","p","l","e","m","e","n","t","a","r","y","-","m","a","t","e","r","i","a","l">>,
    <<"t","a","b","l","e","-","w","r","a","p","-","f","o","o","t">>,
    <<"s","t","a","t","e","m","e","n","t">>,
    <<"c","a","p","t","i","o","n">> }

\* any(_is(node, t) for t in (...))
IsBlock(node) == \E t \in BlockTags : _is(node, t)

\* LevelParagraphOf that drops the children outside the common blocks.
LevelParagraphOf_blocksOnly(node) ==
  IF _is(node, T_title) \/ _is(node, T_label) \/ _is(node, T_sec) THEN <<>>
  ELSE IF IsBlock(node)
       THEN LET txt == Strip(TxtEl(node)) IN IF txt # <<>> THEN <<txt>> ELSE <<>>
       ELSE <<>>

\* The branch of _collect_level_paragraphs for one child node: the strings it
\* appends to out.
LevelParagraphOf(node) ==
  IF _is(node, T_title) \/ _is(node, T_label) \/ _is(node, T_sec) THEN <<>>
  ELSE IF IsBlock(node)
       THEN LET txt == Strip(TxtEl(node)) IN IF txt # <<>> THEN <<txt>> ELSE <<>>
       ELSE LET txt == Strip(TxtEl(node)) IN IF txt # <<>> THEN <<txt>> ELSE <<>>

\* _collect_level_paragraphs(container)
_collect_level_paragraphs(container) ==
  Concat([k \in 1..Len(container.children) |-> LevelParagraphOf(container.children[k])])

----------------------------------------------------------------------------
(* The accumulator: a Python dict, insertion-ordered, as a sequence of         *)
(* [key, paras] entries with distinct keys.                                    *)

Keys(store) == [k \in 1..Len(store) |-> store[k].key]

HasKey(store, key) == \E k \in 1..Len(store) : store[k].key = key

\* store.get(key, [])
Get(store, key) ==
  IF HasKey(store, key)
  THEN store[CHOOSE k \in 1..Len(store) : store[k].key = key].paras
  ELSE <<>>

\* SetDefaultExtend that replaces the list of an existing key.
SetDefaultExtend_overwrite(store, key, paras) ==
  IF HasKey(store, key)
  THEN [k \in 1..Len(store) |->
          IF store[k].key = key THEN [key |-> key, paras |-> paras] ELSE store[k]]
  ELSE Append(store, [key |-> key, paras |-> paras])

\* SetDefaultExtend that puts a new key in front of the others.
SetDefaultExtend_front(store, key, paras) ==
  IF HasKey(store, key)
  THEN [k \in 1..Len(store) |->
          IF store[k].key = key
          THEN [key |-> key, paras |-> store[k].paras \o paras]
          ELSE store[k]]
  ELSE << [key |-> key, paras |-> paras] >> \o store

\* store.setdefault(key, []).extend(paras)
SetDefaultExtend(store, key, paras) ==
  IF HasKey(store, key)
  THEN [k \in 1..Len(store) |->
          IF store[k].key = key
          THEN [key |-> key, paras |-> store[k].paras \o paras]
          ELSE store[k]]
  ELSE Append(store, [key |-> key, paras |-> paras])

\* store[key] = paras
SetItem(store, key, paras) ==
  IF HasKey(store, key)
  THEN [k \in 1..Len(store) |->
          IF store[k].key = key THEN [key |-> key, paras |-> paras] ELSE store[k]]
  ELSE Append(store, [key |-> key, paras |-> paras])

----------------------------------------------------------------------------
(* The XML text: a sequence of tokens, and ET.fromstring                     *)

Open(tag) == [k |-> "open", v |-> tag]
Close(tag) == [k |-> "close", v |-> tag]
Text(s) == [k |-> "text", v |-> s]

RECURSIVE Serialize(_)
\* The XML text of an element: start tag, text, children each followed by its
\* tail, end tag.
Serialize(el) ==
  <<Open(el.tag)>>
  \o (IF el.text # <<>> THEN <<Text(el.text)>> ELSE <<>>)
  \o Concat([k \in 1..Len(el.children) |->
               Serialize(el.children[k])
               \o (IF el.children[k].tail # <<>>
                   THEN <<Text(el.children[k].tail)>> ELSE <<>>)])
  \o <<Close(el.tag)>>

\* Character data read inside node: it is the text of node while node has no
\* child, the tail of its last child afterwards.
AddData(node, s) ==
  IF node.children = <<>>
  THEN [node EXCEPT !.text = @ \o s]
  ELSE [node EXCEPT !.children[Len(node.children)].tail = @ \o s]

RECURSIVE ParseContent(_, _, _)
\* Reads the content of the open element node from token pos on, up to its
\* end tag. [ok, el, pos]: ok is FALSE on a mismatched end tag or when the
\* text ends while the element is open.
ParseContent(toks, pos, node) ==
  IF pos > Len(toks) THEN [ok |-> FALSE, el |-> node, pos |-> pos]
  ELSE LET t == toks[pos] IN
    CASE t.k = "text" -> ParseContent(toks, pos + 1, AddData(node, t.v))
      [] t.k = "open" ->
           LET r == ParseContent(toks, pos + 1, El(t.v, <<>>, <<>>))
           IN  IF r.ok
               THEN ParseContent(toks, r.pos, [node EXCEPT !.children = Append(@, r.el)])
               ELSE [ok |-> FALSE, el |-> node, pos |-> r.pos]
      [] t.k = "close" ->
           IF t.v = node.tag
           THEN [ok |-> TRUE, el |-> node, pos |-> pos + 1]
           ELSE [ok |-> FALSE, el |-> node, pos |-> pos]

\* ET.fromstring(raw_xml): [ok, el]; ok is FALSE where Python raises
\* ParseError (no root element, an element left open, a mismatched end tag,
\* anything after the root element).
fromstring(toks) ==
  IF toks = <<>> \/ toks[1].k # "open" THEN [ok |-> FALSE, el |-> NoElement]
  ELSE LET r == ParseContent(toks, 2, El(toks[1].v, <<>>, <<>>))
       IN  IF r.ok /\ r.pos = Len(toks) + 1
           THEN [ok |-> TRUE, el |-> r.el]
           ELSE [ok |-> FALSE, el |-> NoElement]

----------------------------------------------------------------------------
(* Input documents *)

S_A == <<"A">>
S_B == <<"B">>
S_ws == <<" ", "\n">>
S_Foo == <<"F","o","o">>
S_Bar == <<"B","a","r",".">>
S_Intro == <<"I","n","t","r","o">>
S_Sub == <<"S","u","b">>
S_Hello == <<"H","e","l","l","o"," ","w","o","r","l","d",".">>
S_Nested == <<"N","e","s","t","e","d"," ","t","e","x","t",".">>

P(s) == El(T_p, s, <<>>)
Title(s) == El(T_title, s, <<>>)
Sec(children) == El(T_sec, <<>>, children)

\* The end-to-end example document of the specification.
ExampleDoc ==
  El(T_article, <<>>, <<
    El(T_front, <<>>, <<
      El(T_article_meta, <<>>, <<
        El(T_title_group, <<>>, << El(T_article_title, S_Foo, <<>>) >>),
        El(T_abstract, <<>>, << P(S_Bar) >>) >>) >>),
    El(T_body, <<>>, <<
      Sec(<< Title(S_Intro), P(S_Hello), Sec(<< Title(S_Sub), P(S_Nested) >>) >>) >>) >>)

----------------------------------------------------------------------------
(* The family of input documents.  An article is a front part and a body    *)
(* part; the family varies one of them over every generated shape while the *)
(* other ranges over a few probes whose keys collide with the generated      *)
(* ones.                                                                     *)

\* Most abstract elements under one article-meta.
MaxAbs == 2
\* Deepest nesting of sections below the body.
MaxDepth == 2
\* Most children of the body after its preface.
MaxTop == 2

SeqsUpTo(S, n) == UNION {[1..k -> S] : k \in 0..n}

T_italic == <<"i","t","a","l","i","c">>
T_ns_sec == <<"{","u","}","s","e","c">>
T_articleset == <<"p","m","c","-","a","r","t","i","c","l","e","s","e","t">>
T_error == <<"e","r","r","o","r">>
T_ns_article == <<"{","u","}","a","r","t","i","c","l","e">>
T_sub == <<"s","u","b">>
T_fig == <<"f","i","g">>

\* Mixed content: text, an inline child and its tail; flattens to "x y z".
Mixed(tag) ==
  El(tag, <<" ", "x", " ">>,
     << WithTail(El(T_italic, <<"y">>, <<>>), <<"\n", "z", " ", " ">>) >>)

\* Inline markup with no whitespace around it, as in H<sub>2</sub>O.
Glued(tag) ==
  El(tag, <<"H">>, << WithTail(El(T_sub, <<"2">>, <<>>), <<"O">>) >>)

\* A boxed-text block that holds a section of its own.
Boxed == El(T_boxed_text, <<>>, << Sec(<< Title(S_B), P(S_B) >>) >>)

\* A section element under a namespace.
NsSec == El(T_ns_sec, <<>>, << Title(S_B), P(S_B) >>)

TitleGroup(children) == El(T_title_group, <<>>, children)
TransTitle(s) == El(T_trans_title_group, <<>>, << El(T_trans_title, s, <<>>) >>)

\* The title part of article-meta.
TitleGroups ==
  { <<>>,
    << TitleGroup(<<>>) >>,
    << TitleGroup(<< El(T_article_title, S_A, <<>>) >>) >>,
    << TitleGroup(<< Mixed(T_article_title), TransTitle(S_B) >>) >>,
    << TitleGroup(<< El(T_article_title, S_ws, <<>>), TransTitle(S_B) >>) >>,
    << TitleGroup(<< El(T_article_title, S_ws, <<>>),
                     El(T_article_title, S_A, <<>>) >>) >>,
    << TitleGroup(<< TransTitle(S_B) >>) >>,
    << TitleGroup(<< TransTitle(S_ws) >>) >>,
    << TitleGroup(<< Glued(T_article_title) >>) >> }

ProbeTitleGroups == { <<>>, << TitleGroup(<< El(T_article_title, S_A, <<>>) >>) >> }

\* The abstract elements.
AbsContents ==
  { <<>>,
    << P(S_A) >>,
    << P(S_B), Sec(<< P(S_A) >>), P(S_ws) >>,
    << Sec(<< Title(S_B), P(S_B), Sec(<< Title(S_A), P(S_A) >>) >>) >> }

AbsEls ==
  { El(T_abstract, <<>>, c) : c \in AbsContents }
  \cup { El(T_abstract, <<>>, << Title(S_A), P(S_A) >>),
         El(T_abstract, <<>>, << Title(S_ws), P(S_B) >>),
         El(T_abstract, <<>>, << Title(K_Title), P(S_B) >>),
         El(T_trans_abstract, <<>>, << P(S_A) >>),
         El(T_trans_abstract, <<>>, << Title(S_A), P(S_B), Sec(<< P(S_A) >>) >>),
         El(T_abstract, <<>>, << Boxed >>) }

AbsLists == SeqsUpTo(AbsEls, MaxAbs)

ProbeAbsLists ==
  { <<>>, << El(T_trans_abstract, <<>>, << P(S_B) >>),
             El(T_abstract, <<>>, << Title(S_A), P(S_A) >>) >> }

Front(metaChildren) == << El(T_front, <<>>, << El(T_article_meta, <<>>, metaChildren) >>) >>

Fronts ==
  { <<>>, << El(T_front, <<>>, <<>>) >> }
  \cup { Front(tg \o al) : tg \in TitleGroups, al \in ProbeAbsLists }
  \cup { Front(tg \o al) : tg \in ProbeTitleGroups, al \in AbsLists }

ProbeFronts ==
  { <<>>,
    Front(<< TitleGroup(<< El(T_article_title, S_A, <<>>) >>),
             El(T_abstract, <<>>, << Title(S_A), P(S_A) >>) >>) }

\* The sections.
SecTitleParts == { <<>>, << Title(S_A) >>, << Title(K_Title) >> }

LeafContents ==
  { <<>>,
    << P(S_A) >>,
    << P(S_B) >>,
    << P(S_ws) >>,
    << Mixed(T_p) >>,
    << Boxed >>,
    << El(T_label, <<"1">>, <<>>), P(S_A), NsSec >>,
    << El(T_fig, S_B, <<>>), P(S_A) >> }

LeafSecs ==
  { Sec(t \o c) : t \in SecTitleParts, c \in LeafContents }
  \cup { Sec(<< Title(S_ws), P(S_A) >>) }

RECURSIVE GenSecs(_)
\* The sections nested at most d deep.
GenSecs(d) ==
  IF d <= 1 THEN LeafSecs
  ELSE LeafSecs \cup
       UNION { { Sec(<< s >>), Sec(<< Title(S_A), P(S_A), s, P(S_B) >>) } :
                 s \in GenSecs(d - 1) }

\* Children of the body that follow its first section.
ExtraKids == { Sec(<< Title(S_A), P(S_B) >>), P(S_B), NsSec }

Prefaces == { <<>>, << Title(S_A), P(S_A), P(S_ws) >> }

Body(children) == << El(T_body, <<>>, children) >>

Bodies ==
  { <<>> }
  \cup { Body(pre) : pre \in Prefaces }
  \cup { Body(pre \o << s >> \o more) :
           pre \in Prefaces,
           s \in GenSecs(MaxDepth) \cup { NsSec },
           more \in SeqsUpTo(ExtraKids, MaxTop - 1) }

ProbeBodies ==
  { <<>>,
    Body(<< P(S_B),
            Sec(<< Title(K_Title), P(S_B) >>),
            Sec(<< Title(S_A), P(S_A), Sec(<< Title(K_Abstract), P(S_B) >>) >>) >>) }

Article(front, body) == El(T_article, <<>>, front \o body)

Articles ==
  { Article(f, b) : f \in Fronts, b \in ProbeBodies }
  \cup { Article(f, b) : f \in ProbeFronts, b \in Bodies }
  \cup { ExampleDoc }

\* Other roots: the article below a wrapper (the first one in document order
\* is used), an article under a namespace, or no article at all.
Wrapped ==
  { El(T_articleset, <<>>, << ExampleDoc >>),
    El(T_articleset, <<>>,
       << El(T_error, S_A, <<>>),
          El(T_articleset, <<>>, << Article(<<>>, Body(<< P(S_A) >>)) >>),
          ExampleDoc >>),
    El(T_ns_article, <<>>, Body(<< P(S_A) >>)),
    El(T_articleset, <<>>, <<>>),
    El(T_articleset, <<>>, << El(T_error, S_A, <<>>), El(T_body, <<>>, << P(S_A) >>) >>) }

Docs == Articles \cup Wrapped

\* Texts that are not well-formed: every truncation of a document, and a
\* document followed by a second root element.
Truncations(toks) == {SubSeq(toks, 1, n) : n \in 0..(Len(toks) - 1)}

Malformed ==
  Truncations(Serialize(ExampleDoc))
  \cup { Serialize(ExampleDoc) \o Serialize(P(S_A)),
         << Open(T_article), Open(T_body), Close(T_article), Close(T_body) >>,
         << Text(S_A) >> }

Inputs == {Serialize(d) : d \in Docs} \cup Malformed

\* What the HTTP services can answer with.
Responses ==
  { Serialize(ExampleDoc), Serialize(El(T_articleset, <<>>, << ExampleDoc >>)) }
  \cup Malformed

Callers == {"_jats_to_section_paragraph_map", "get_ncbi_text_my", "get_epmc_text_my"}

----------------------------------------------------------------------------
(* The state machine *)

VARIABLES
  caller,     \* the entry point called
  raw_xml,    \* the text handed to _jats_to_section_paragraph_map
  pc,         \* position in the call
  root,       \* the parsed tree
  article,    \* path of the article element, or None
  out,        \* the accumulator (store)
  abs_nodes,  \* _parse_abstract_into_map: the abstract elements, as paths
  i,          \* _parse_abstract_into_map: the loop index
  key,        \* _parse_abstract_into_map: the key of abstract i
  subs,       \* _parse_abstract_into_map: subsections of abstract i still to do
  stack,      \* _parse_body_into_map: pending walk_sec calls, next first
  cur,        \* the container whose paragraphs were collected last, or None
  ckey,       \* the key they were filed under
  paras,      \* the paragraphs collected from cur
  visited,    \* the sections walk_sec was called on, in call order
  ret,        \* what the call returned
  exc         \* the exception that left the call

vars == <<caller, raw_xml, pc, root, article, out, abs_nodes, i, key, subs,
          stack, cur, ckey, paras, visited, ret, exc>>

\* The state of one call of fetch (src/article_fetching/fetch.py).
VARIABLES
  fetch_pc,         \* position in the call
  max_arg,          \* the max_records argument as passed: <<>> for None, else <<N>>
  max_records,      \* the local max_records, likewise
  cursor,           \* the cursorMark of the next request
  records_fetched,  \* the counter of saved records
  results,          \* the records of the current page the for loop has not reached
  data,             \* the nextCursorMark of the current page
  files,            \* the names of the files in output_dir
  requests          \* search requests made so far

fetchVars == <<fetch_pc, max_arg, max_records, cursor, records_fetched, results,
               data, files, requests>>

\* None, for the strings of fetch.
NoValue == "None"

\* None, for max_records.
NoLimit == <<>>

\* fetch is not running.
FetchIdle ==
  /\ fetch_pc = "idle"
  /\ max_arg = NoLimit
  /\ max_records = NoLimit
  /\ cursor = NoValue
  /\ records_fetched = 0
  /\ results = <<>>
  /\ data = NoValue
  /\ files = {}
  /\ requests = 0

\* The state of the curator-notes scraper (src/dicty_curator_notes.py) over
\* its runs on one output file.
VARIABLES
  notes_pc,     \* position in the run
  parquet,      \* the rows of the output file, <<>> when it does not exist
  gene_series,  \* the gene ids selected for the run
  batch_size,   \* the batch_size argument
  done_ids,     \* the ids loaded from the output file when the run started
  rows_buffer,  \* the rows not yet written
  gidx,         \* position of the for loop in gene_series
  processed,    \* counter of rows made
  skipped,      \* counter of ids skipped
  requested,    \* the ids the run has requested the notes of
  runs          \* runs started so far

notesVars == <<notes_pc, parquet, gene_series, batch_size, done_ids, rows_buffer,
               gidx, processed, skipped, requested, runs>>

\* The scraper has not been started.
NotesIdle ==
  /\ notes_pc = "idle"
  /\ parquet = <<>>
  /\ gene_series = <<>>
  /\ batch_size = 0
  /\ done_ids = {}
  /\ rows_buffer = <<>>
  /\ gidx = 0
  /\ processed = 0
  /\ skipped = 0
  /\ requested = {}
  /\ runs = 0

NoReturn == [returned |-> FALSE, value |-> <<>>]

Init ==
  /\ caller \in Callers
  /\ IF caller = "_jats_to_section_paragraph_map"
     THEN raw_xml \in Inputs /\ pc = "parse"
     ELSE raw_xml = <<>> /\ pc = "get"
  /\ root = NoElement
  /\ article = None
  /\ out = <<>>
  /\ abs_nodes = <<>>
  /\ i = 0
  /\ key = <<>>
  /\ subs = <<>>
  /\ stack = <<>>
  /\ cur = None
  /\ ckey = <<>>
  /\ paras = <<>>
  /\ visited = <<>>
  /\ ret = NoReturn
  /\ exc = "none"
  /\ FetchIdle
  /\ NotesIdle

\* get_ncbi_text_my / get_epmc_text_my: _get returned r.text
HttpOk ==
  /\ pc = "get"
  /\ \E text \in Responses : raw_xml' = text
  /\ pc' = "parse"
  /\ UNCHANGED <<fetchVars, notesVars, caller, root, article, out, abs_nodes, i, key, subs, stack,
                 cur, ckey, paras, visited, ret, exc>>

\* get_ncbi_text_my / get_epmc_text_my: _get raised (raise_for_status)
HttpError ==
  /\ pc = "get"
  /\ pc' = "raised"
  /\ exc' = "HTTPError"
  /\ UNCHANGED <<fetchVars, notesVars, caller, raw_xml, root, article, out, abs_nodes, i, key, subs,
                 stack, cur, ckey, paras, visited, ret>>

\* ParseError caught, an empty map returned.
ParseError_swallowed ==
  /\ pc = "parse"
  /\ ~fromstring(raw_xml).ok
  /\ pc' = "done"
  /\ ret' = [returned |-> TRUE, value |-> <<>>]
  /\ UNCHANGED <<fetchVars, notesVars, caller, raw_xml, root, article, out, abs_nodes, i, key, subs,
                 stack, cur, ckey, paras, visited, exc>>

\* ET.fromstring(raw_xml) raises: nothing catches it, in
\* _jats_to_section_paragraph_map or in the wrappers.
ParseError ==
  /\ pc = "parse"
  /\ ~fromstring(raw_xml).ok
  /\ pc' = "raised"
  /\ exc' = "ParseError"
  /\ UNCHANGED <<fetchVars, notesVars, caller, raw_xml, root, article, out, abs_nodes, i, key, subs,
                 stack, cur, ckey, paras, visited, ret>>

\* root = ET.fromstring(raw_xml)
Parse ==
  /\ pc = "parse"
  /\ fromstring(raw_xml).ok
  /\ root' = fromstring(raw_xml).el
  /\ pc' = "first_article"
  /\ UNCHANGED <<fetchVars, notesVars, caller, raw_xml, article, out, abs_nodes, i, key, subs, stack,
                 cur, ckey, paras, visited, ret, exc>>

\* article = _first_article(root); if article is None: return out
FirstArticle ==
  /\ pc = "first_article"
  /\ article' = _first_article(root)
  /\ pc' = IF article' = None THEN "return" ELSE "title"
  /\ UNCHANGED <<fetchVars, notesVars, caller, raw_xml, root, out, abs_nodes, i, key, subs, stack,
                 cur, ckey, paras, visited, ret, exc>>

\* TitleEl that also falls back when article-title flattens to nothing.
TitleEl_fallbackOnEmpty(r, a) ==
  LET t1 == find(r, a, <<T_front, T_article_meta, T_title_group, T_article_title>>)
  IN  IF t1 = None \/ _txt(r, t1) = <<>>
      THEN find(r, a, <<T_front, T_article_meta, T_title_group,
                        T_trans_title_group, T_trans_title>>)
      ELSE t1

\* The element the title is read from: article-title, else trans-title.
TitleEl(r, a) ==
  LET t1 == find(r, a, <<T_front, T_article_meta, T_title_group, T_article_title>>)
  IN  IF t1 = None
      THEN find(r, a, <<T_front, T_article_meta, T_title_group,
                        T_trans_title_group, T_trans_title>>)
      ELSE t1

\* The # Title block of _jats_to_section_paragraph_map
TitleStep ==
  /\ pc = "title"
  /\ LET title == _txt(root, TitleEl(root, article))
     IN  out' = IF title # <<>> THEN SetItem(out, K_Title, <<title>>) ELSE out
  /\ pc' = "abstract"
  /\ UNCHANGED <<fetchVars, notesVars, caller, raw_xml, root, article, abs_nodes, i, key, subs, stack,
                 cur, ckey, paras, visited, ret, exc>>

\* SecChildren that recurses only below a container with paragraphs.
SecChildren_onlyWithParas(r, p) ==
  IF _collect_level_paragraphs(At(r, p)) = <<>> THEN <<>>
  ELSE SelectSeq(Children(r, p), LAMBDA q : _is(At(r, q), T_sec))

\* list(el) filtered by _is(c, "sec"), as paths
SecChildren(r, p) == SelectSeq(Children(r, p), LAMBDA q : _is(At(r, q), T_sec))

\* AbsNodes that takes the abstract elements in document order.
AbsNodes_docOrder(r, a) ==
  LET meta == find(r, a, <<T_front, T_article_meta>>)
  IN  IF meta = None THEN <<>>
      ELSE SelectSeq(Children(r, meta),
                     LAMBDA q : At(r, q).tag \in {T_abstract, T_trans_abstract})

\* _parse_abstract_into_map up to the loop: meta and abs_nodes
AbsNodes(r, a) ==
  LET meta == find(r, a, <<T_front, T_article_meta>>)
  IN  IF meta = None THEN <<>>
      ELSE findall(r, meta, <<T_abstract>>) \o findall(r, meta, <<T_trans_abstract>>)

AbstractStart ==
  /\ pc = "abstract"
  /\ abs_nodes' = AbsNodes(root, article)
  /\ IF abs_nodes' = <<>>
     THEN pc' = "body" /\ i' = i
     ELSE pc' = "abs_el" /\ i' = 1
  /\ UNCHANGED <<fetchVars, notesVars, caller, raw_xml, root, article, out, key, subs, stack,
                 cur, ckey, paras, visited, ret, exc>>

\* The key of the n-th of the abstract elements nodes.
AbstractKey(r, nodes, n) ==
  LET title_text == _txt(r, find(r, nodes[n], <<T_title>>))
  IN  IF Len(nodes) = 1 /\ title_text = <<>> THEN K_Abstract
      ELSE IF title_text # <<>> THEN title_text
      ELSE K_Abstract \o <<" ">> \o Digits(n)

\* Where the abstract loop goes once the subsections left are ss.
AfterAbstract(ss, n, nodes) ==
  IF ss # <<>> THEN [pc |-> "abs_sub", i |-> n]
  ELSE IF n < Len(nodes) THEN [pc |-> "abs_el", i |-> n + 1]
  ELSE [pc |-> "body", i |-> n]

\* One iteration of the loop over abs_nodes, up to its own paragraphs
AbstractElem ==
  /\ pc = "abs_el"
  /\ key' = AbstractKey(root, abs_nodes, i)
  /\ cur' = abs_nodes[i]
  /\ ckey' = key'
  /\ paras' = _collect_level_paragraphs(At(root, abs_nodes[i]))
  /\ out' = IF paras' # <<>> THEN SetDefaultExtend(out, key', paras') ELSE out
  /\ subs' = SecChildren(root, abs_nodes[i])
  /\ pc' = AfterAbstract(subs', i, abs_nodes).pc
  /\ i' = AfterAbstract(subs', i, abs_nodes).i
  /\ UNCHANGED <<fetchVars, notesVars, caller, raw_xml, root, article, abs_nodes, stack, visited, ret, exc>>

\* One iteration of the loop over the subsections of abstract i
AbstractSub ==
  /\ pc = "abs_sub"
  /\ LET s == Head(subs)
         t == _txt(root, find(root, s, <<T_title>>))
     IN  /\ cur' = s
         /\ ckey' = IF t # <<>> THEN t ELSE key \o K_subsection
         /\ paras' = _collect_level_paragraphs(At(root, s))
  /\ out' = IF paras' # <<>> THEN SetDefaultExtend(out, ckey', paras') ELSE out
  /\ subs' = Tail(subs)
  /\ pc' = AfterAbstract(subs', i, abs_nodes).pc
  /\ i' = AfterAbstract(subs', i, abs_nodes).i
  /\ UNCHANGED <<fetchVars, notesVars, caller, raw_xml, root, article, abs_nodes, key, stack, visited, ret, exc>>

RECURSIVE PrefaceOf(_)
\* The preface loop of _parse_body_into_map over the remaining children ns.
PrefaceOf(ns) ==
  IF ns = <<>> \/ _is(Head(ns), T_sec) THEN <<>>
  ELSE (IF ~_is(Head(ns), T_title) /\ Strip(TxtEl(Head(ns))) # <<>>
        THEN <<Strip(TxtEl(Head(ns)))>> ELSE <<>>)
       \o PrefaceOf(Tail(ns))

\* _parse_body_into_map up to the calls of walk_sec
BodyStart ==
  /\ pc = "body"
  /\ LET body == find(root, article, <<T_body>>)
     IN  IF body = None
         THEN /\ pc' = "return"
              /\ UNCHANGED <<out, stack>>
         ELSE /\ LET preface == PrefaceOf(At(root, body).children)
                 IN  out' = IF preface # <<>>
                            THEN SetDefaultExtend(out, K_BodyUntitled, preface)
                            ELSE out
              /\ stack' = findall(root, body, <<T_sec>>)
              /\ pc' = "walk"
  /\ UNCHANGED <<fetchVars, notesVars, caller, raw_xml, root, article, abs_nodes, i, key, subs,
                 cur, ckey, paras, visited, ret, exc>>

\* The title walk_sec files section s under.
SecTitle(r, s) ==
  LET t == _txt(r, find(r, s, <<T_title>>))
  IN  IF t # <<>> THEN t ELSE K_UntitledSection

\* One call of walk_sec; its recursive calls are pushed in front of the
\* pending ones.
WalkSec ==
  /\ pc = "walk"
  /\ stack # <<>>
  /\ LET sec == Head(stack)
     IN  /\ cur' = sec
         /\ ckey' = SecTitle(root, sec)
         /\ paras' = _collect_level_paragraphs(At(root, sec))
         /\ stack' = SecChildren(root, sec) \o Tail(stack)
         /\ visited' = Append(visited, sec)
  /\ out' = IF paras' # <<>> THEN SetDefaultExtend(out, ckey', paras') ELSE out
  /\ UNCHANGED <<fetchVars, notesVars, caller, raw_xml, pc, root, article, abs_nodes, i, key, subs, ret, exc>>

\* return out
Return ==
  /\ pc = "return" \/ (pc = "walk" /\ stack = <<>>)
  /\ ret' = [returned |-> TRUE, value |-> out]
  /\ pc' = "done"
  /\ UNCHANGED <<fetchVars, notesVars, caller, raw_xml, root, article, out, abs_nodes, i, key, subs,
                 stack, cur, ckey, paras, visited, exc>>

Next ==
  \/ HttpOk
  \/ HttpError
  \/ ParseError
  \/ Parse
  \/ FirstArticle
  \/ TitleStep
  \/ AbstractStart
  \/ AbstractElem
  \/ AbstractSub
  \/ BodyStart
  \/ WalkSec
  \/ Return

Spec == Init /\ [][Next]_vars

----------------------------------------------------------------------------
(* fetch: the paging loop of src/article_fetching/fetch.py.  The search      *)
(* service answers each request with any page of records and any next       *)
(* cursor.  get_text_from is None, so no full text is requested.            *)

\* No extractor call is running.
ExtractorIdle ==
  /\ caller = "none"
  /\ raw_xml = <<>>
  /\ pc = "idle"
  /\ root = NoElement
  /\ article = None
  /\ out = <<>>
  /\ abs_nodes = <<>>
  /\ i = 0
  /\ key = <<>>
  /\ subs = <<>>
  /\ stack = <<>>
  /\ cur = None
  /\ ckey = <<>>
  /\ paras = <<>>
  /\ visited = <<>>
  /\ ret = NoReturn
  /\ exc = "none"

\* Largest max_records passed and largest hitCount answered.
MaxLimit == 2
\* Most records on one page.
MaxPage == 2
\* Most search requests of one call.
MaxRequests == 3

\* The records of the service: without any identifier, with an id only, and
\* with all three.
Records ==
  { [id |-> NoValue, pmid |-> NoValue, pmcid |-> NoValue],
    [id |-> "1", pmid |-> NoValue, pmcid |-> NoValue],
    [id |-> "2", pmid |-> "2", pmcid |-> "PMC2"] }

Pages == SeqsUpTo(Records, MaxPage)

Cursors == { NoValue, "next" }

\* file_id = pmcid or pmid or epmc_id
FileId(record) ==
  IF record.pmcid # NoValue THEN record.pmcid
  ELSE IF record.pmid # NoValue THEN record.pmid
  ELSE record.id

InitFetch ==
  /\ ExtractorIdle
  /\ NotesIdle
  /\ fetch_pc = "start"
  /\ max_arg \in {NoLimit} \cup { <<N>> : N \in 0..MaxLimit }
  /\ max_records = max_arg
  /\ cursor = NoValue
  /\ records_fetched = 0
  /\ results = <<>>
  /\ data = NoValue
  /\ files = {}
  /\ requests = 0

\* fetch up to the loop; get_max_records answers with a hitCount
FetchEntry ==
  /\ fetch_pc = "start"
  /\ cursor' = "*"
  /\ records_fetched' = 0
  /\ IF max_records = NoLimit
     THEN \E hitCount \in 0..MaxLimit : max_records' = <<hitCount>>
     ELSE max_records' = max_records
  /\ fetch_pc' = "request"
  /\ UNCHANGED <<vars, notesVars, max_arg, results, data, files, requests>>

\* get_max_records raises
GetMaxRecordsFails ==
  /\ fetch_pc = "start"
  /\ max_records = NoLimit
  /\ fetch_pc' = "raised"
  /\ UNCHANGED <<vars, notesVars, max_arg, max_records, cursor, records_fetched, results,
                 data, files, requests>>

\* The request of one page, answered
Request ==
  /\ fetch_pc = "request"
  /\ requests < MaxRequests
  /\ requests' = requests + 1
  /\ \E page \in Pages, next \in Cursors :
       /\ results' = page
       /\ data' = next
       /\ fetch_pc' = IF page = <<>> THEN "done" ELSE "for"
  /\ UNCHANGED <<vars, notesVars, max_arg, max_records, cursor, records_fetched, files>>

\* The request of one page raises RequestException
RequestFails ==
  /\ fetch_pc = "request"
  /\ requests < MaxRequests
  /\ requests' = requests + 1
  /\ fetch_pc' = "done"
  /\ UNCHANGED <<vars, notesVars, max_arg, max_records, cursor, records_fetched, results,
                 data, files>>

\* One iteration of the for loop on a record without identifier
SkipRecord ==
  /\ fetch_pc = "for"
  /\ FileId(Head(results)) = NoValue
  /\ results' = Tail(results)
  /\ fetch_pc' = IF results' = <<>> THEN "after_for" ELSE "for"
  /\ UNCHANGED <<vars, notesVars, max_arg, max_records, cursor, records_fetched, data, files,
                 requests>>

\* One iteration of the for loop on a record with an identifier: the file is
\* written, the counter incremented, and the for loop left at max_records
SaveRecord ==
  /\ fetch_pc = "for"
  /\ FileId(Head(results)) # NoValue
  /\ files' = files \cup { FileId(Head(results)) }
  /\ records_fetched' = records_fetched + 1
  /\ IF max_records # NoLimit /\ records_fetched' >= max_records[1]
     THEN results' = <<>> /\ fetch_pc' = "after_for"
     ELSE /\ results' = Tail(results)
          /\ fetch_pc' = IF results' = <<>> THEN "after_for" ELSE "for"
  /\ UNCHANGED <<vars, notesVars, max_arg, max_records, cursor, data, requests>>

\* After the for loop: the next cursor
NextCursor ==
  /\ fetch_pc = "after_for"
  /\ cursor' = data
  /\ fetch_pc' = IF data = NoValue THEN "done" ELSE "request"
  /\ UNCHANGED <<vars, notesVars, max_arg, max_records, records_fetched, results, data, files,
                 requests>>

NextFetch ==
  \/ FetchEntry
  \/ GetMaxRecordsFails
  \/ Request
  \/ RequestFails
  \/ SkipRecord
  \/ SaveRecord
  \/ NextCursor

SpecFetch == InitFetch /\ [][NextFetch]_fetchVars

----------------------------------------------------------------------------
(* The curator-notes scraper: runs of src/dicty_curator_notes.py on one      *)
(* output file.  A run can be interrupted at any point of its loop; what is  *)
(* in rows_buffer is then lost.                                              *)

\* The gene ids of the status file.
Genes == {"g1", "g2", "g3"}

\* Most runs on the output file.
MaxRuns == 2
\* Largest batch_size.
MaxBatch == 2

\* The sequences of distinct gene ids.
Distinct(n) ==
  { s \in [1..n -> Genes] : \A a, b \in 1..n : a # b => s[a] # s[b] }

\* genes_status.to_series(), and its head(limit): unique() gives the ids of
\* the status file once each, in any order.
GeneSeries == UNION { Distinct(n) : n \in 0..Cardinality(Genes) }

\* load_done_ids that finds nothing done.
load_done_ids_fresh(file) == {}

\* load_done_ids(out_path)
load_done_ids(file) == { file[k].gene_id : k \in 1..Len(file) }

\* append_parquet(out_path, rows)
append_parquet(file, rows) == IF rows = <<>> THEN file ELSE file \o rows

InitNotes ==
  /\ ExtractorIdle
  /\ FetchIdle
  /\ notes_pc = "start"
  /\ parquet = <<>>
  /\ gene_series = <<>>
  /\ batch_size = 0
  /\ done_ids = {}
  /\ rows_buffer = <<>>
  /\ gidx = 0
  /\ processed = 0
  /\ skipped = 0
  /\ requested = {}
  /\ runs = 0

\* run up to the loop, for any --limit and --batch-size
StartRun ==
  /\ notes_pc \in {"start", "done", "interrupted"}
  /\ runs < MaxRuns
  /\ runs' = runs + 1
  /\ gene_series' \in GeneSeries
  /\ batch_size' \in 0..MaxBatch
  /\ done_ids' = load_done_ids(parquet)
  /\ rows_buffer' = <<>>
  /\ processed' = 0
  /\ skipped' = 0
  /\ requested' = {}
  /\ gidx' = 1
  /\ notes_pc' = "loop"
  /\ UNCHANGED <<vars, fetchVars, parquet>>

\* One iteration of the loop on an id that is done
SkipGene ==
  /\ notes_pc = "loop"
  /\ gidx <= Len(gene_series)
  /\ gene_series[gidx] \in done_ids
  /\ skipped' = skipped + 1
  /\ gidx' = gidx + 1
  /\ UNCHANGED <<vars, fetchVars, notes_pc, parquet, gene_series, batch_size,
                 done_ids, rows_buffer, processed, requested, runs>>

\* One iteration of the loop on an id that is not done: the request, which
\* answers or fails, the row, and the write of a full batch
ProcessGene ==
  /\ notes_pc = "loop"
  /\ gidx <= Len(gene_series)
  /\ gene_series[gidx] \notin done_ids
  /\ requested' = requested \cup { gene_series[gidx] }
  /\ \E html \in { NoValue, "html" } :
       LET buffer == Append(rows_buffer,
                            [gene_id |-> gene_series[gidx], curator_notes_html |-> html])
       IN  IF Len(buffer) >= batch_size
           THEN parquet' = append_parquet(parquet, buffer) /\ rows_buffer' = <<>>
           ELSE parquet' = parquet /\ rows_buffer' = buffer
  /\ processed' = processed + 1
  /\ gidx' = gidx + 1
  /\ UNCHANGED <<vars, fetchVars, notes_pc, gene_series, batch_size, done_ids,
                 skipped, runs>>

\* After the loop: flush remaining
FinalFlush ==
  /\ notes_pc = "loop"
  /\ gidx > Len(gene_series)
  /\ parquet' = append_parquet(parquet, rows_buffer)
  /\ notes_pc' = "done"
  /\ UNCHANGED <<vars, fetchVars, gene_series, batch_size, done_ids, rows_buffer,
                 gidx, processed, skipped, requested, runs>>

\* The run is stopped in its loop (an interrupt, an error that is not a
\* RequestException)
Interrupt ==
  /\ notes_pc = "loop"
  /\ notes_pc' = "interrupted"
  /\ UNCHANGED <<vars, fetchVars, parquet, gene_series, batch_size, done_ids,
                 rows_buffer, gidx, processed, skipped, requested, runs>>

NextNotes ==
  \/ StartRun
  \/ SkipGene
  \/ ProcessGene
  \/ FinalFlush
  \/ Interrupt

SpecNotes == InitNotes /\ [][NextNotes]_notesVars

----------------------------------------------------------------------------
(* Claims *)

ExampleMap ==
  << [key |-> K_Title, paras |-> << S_Foo >>],
     [key |-> K_Abstract, paras |-> << S_Bar >>],
     [key |-> S_Intro, paras |-> << S_Hello >>],
     [key |-> S_Sub, paras |-> << S_Nested >>] >>

\* C1: for the end-to-end example document the call returns exactly the four
\* entries Title -> [Foo], Abstract -> [Bar.], Intro -> [Hello world.],
\* Sub -> [Nested text.], in that key order and with no other key.
C1_Example ==
  (raw_xml = Serialize(ExampleDoc) /\ pc = "done") =>
    (ret.returned /\ ret.value = ExampleMap)

C1_Witness == raw_xml = Serialize(ExampleDoc) /\ pc = "done" /\ ret.returned

\* C2: whenever the returned map has the key Title, its list has exactly one
\* element, the flattened article title, whatever titles the abstracts and
\* sections carry.
C2_TitleSingle ==
  (ret.returned /\ HasKey(ret.value, K_Title)) =>
    Get(ret.value, K_Title) = << _txt(root, TitleEl(root, article)) >>

\* el with every section element below it, at any depth, emptied (its tail,
\* which lies outside the section, is kept).
RECURSIVE WithoutNestedSecs(_)
WithoutNestedSecs(el) ==
  [el EXCEPT !.children =
     [k \in 1..Len(el.children) |->
        IF el.children[k].tag = T_sec
        THEN WithTail(El(T_sec, <<>>, <<>>), el.children[k].tail)
        ELSE WithoutNestedSecs(el.children[k])]]

\* C3: the paragraphs stored for a section or abstract S contain no text that
\* lies inside a section nested below S, at any depth and whatever elements
\* wrap that section: they are the paragraphs S has once every section below
\* it is emptied.
C3_NoNestedLeak ==
  cur # None =>
    paras = _collect_level_paragraphs(WithoutNestedSecs(At(root, cur)))

IsPrefix(s, t) == Len(s) <= Len(t) /\ SubSeq(t, 1, Len(s)) = s

KeySet(store) == {store[k].key : k \in 1..Len(store)}

\* A step that collects the paragraphs of one container.
CollectStep == pc \in {"abs_el", "abs_sub"} \/ (pc = "walk" /\ stack # <<>>)

SiblingDoc ==
  Article(<<>>, Body(<< Sec(<< Title(S_A), P(S_A) >>), Sec(<< Title(S_A), P(S_B) >>) >>))

C4_Step ==
  /\ \A k \in KeySet(out) : IsPrefix(Get(out, k), Get(out', k))
  /\ CollectStep => Get(out', ckey') = Get(out, ckey') \o paras'

\* C4: sections that resolve to the same key accumulate in one list in visit
\* order: every step leaves each stored list a prefix of the new one and
\* appends the collected paragraphs to the list of their key; two sibling
\* sections titled alike with paragraphs [A] and [B] yield the one entry [A, B].
C4_Accumulate ==
  /\ []((raw_xml = Serialize(SiblingDoc) /\ ret.returned) =>
          ret.value = << [key |-> S_A, paras |-> << S_A, S_B >>] >>)
  /\ [][C4_Step]_vars

C4_Witness ==
  /\ raw_xml = Serialize(SiblingDoc)
  /\ ret.returned
  /\ Len(visited) = 2

\* The section elements below the sections ps, in pre-order.
RECURSIVE PreorderSecs(_, _)
PreorderSecs(r, ps) ==
  Concat([k \in 1..Len(ps) |->
            << ps[k] >>
            \o PreorderSecs(r, SelectSeq(Children(r, ps[k]),
                                         LAMBDA q : At(r, q).tag = T_sec))])

\* The sections the body walk is to visit: the sec children of the body and
\* the sec children of those, recursively.
BodySecs(r, a) ==
  LET bodies == SelectSeq(Children(r, a), LAMBDA q : At(r, q).tag = T_body)
  IN  IF bodies = <<>> THEN <<>>
      ELSE PreorderSecs(r, SelectSeq(Children(r, Head(bodies)),
                                     LAMBDA q : At(r, q).tag = T_sec))

\* The key of a body section: its flattened title child, or the default.
OwnTitle(el) ==
  LET ts == SelectSeq(el.children, LAMBDA c : c.tag = T_title)
  IN  IF ts = <<>> \/ TxtEl(Head(ts)) = <<>> THEN K_UntitledSection ELSE TxtEl(Head(ts))

OnlyNestedDoc == Article(<<>>, Body(<< Sec(<< Sec(<< Title(S_A), P(S_A) >>) >>) >>))

C5_Visits ==
  /\ (ret.returned /\ article # None) =>
       LET want == BodySecs(root, article)
       IN  SelectSeq(visited, LAMBDA q : \E k \in 1..Len(want) : want[k] = q) = want
  /\ (raw_xml = Serialize(OnlyNestedDoc) /\ ret.returned) =>
       ret.value = << [key |-> S_A, paras |-> << S_A >>] >>

C5_Step ==
  (pc = "walk" /\ stack # <<>>) =>
    LET s == Head(stack)
        own == _collect_level_paragraphs(At(root, s))
        t == OwnTitle(At(root, s))
    IN  /\ visited' = Append(visited, s)
        /\ \A k \in 1..Len(SecChildren(root, s)) :
             \E j \in 1..Len(stack') : stack'[j] = SecChildren(root, s)[k]
        /\ IF own = <<>> THEN out' = out
           ELSE /\ Get(out', t) = Get(out, t) \o own
                /\ KeySet(out') = KeySet(out) \cup {t}

\* C5: the body walk visits every top-level section and, recursively, every
\* section that is a child of a visited one, whether or not the parent has
\* paragraphs; a visited section with own-level paragraphs files them under
\* its flattened title or Untitled Section, one without creates no entry; a
\* section holding only a sub-section gives an entry for the inner one alone.
C5_BodyWalk == []C5_Visits /\ [][C5_Step]_vars

C5_Witness ==
  /\ raw_xml = Serialize(OnlyNestedDoc)
  /\ ret.returned
  /\ visited = << <<1, 1>>, <<1, 1, 1>> >>

\* A non-empty string without leading, trailing or doubled whitespace.
Normalized(s) ==
  /\ s # <<>>
  /\ s[1] \notin Whitespace
  /\ s[Len(s)] \notin Whitespace
  /\ \A k \in 1..(Len(s) - 1) : ~(s[k] \in Whitespace /\ s[k + 1] \in Whitespace)

MapOk(store) ==
  \A k \in 1..Len(store) :
    /\ store[k].paras # <<>>
    /\ \A j \in 1..Len(store[k].paras) : Normalized(store[k].paras[j])

\* C6: every key of the accumulator, in every state of the traversal, and of
\* the returned map has a non-empty list of non-empty whitespace-normalized
\* strings.
C6_NonEmptyNormalized == MapOk(out) /\ MapOk(ret.value)

C6_Witness ==
  /\ ret.returned
  /\ \E k \in 1..Len(ret.value) :
       /\ ret.value[k].paras = << <<"x", " ", "y", " ", "z">> >>
       /\ ret.value[k].key = K_UntitledSection

RECURSIVE Dedup(_, _)
\* seq without the elements of seen and without repetitions.
Dedup(seq, seen) ==
  IF seq = <<>> THEN <<>>
  ELSE IF Head(seq) \in seen THEN Dedup(Tail(seq), seen)
  ELSE << Head(seq) >> \o Dedup(Tail(seq), seen \cup {Head(seq)})

\* The keys that receive content, in traversal order (with repetitions).
AbsSubKeys(r, nodes, n) ==
  LET ss == SecChildren(r, nodes[n])
      t(s) == _txt(r, find(r, s, <<T_title>>))
  IN  Concat([k \in 1..Len(ss) |->
                IF _collect_level_paragraphs(At(r, ss[k])) = <<>> THEN <<>>
                ELSE IF t(ss[k]) # <<>> THEN << t(ss[k]) >>
                ELSE << AbstractKey(r, nodes, n) \o K_subsection >>])

AbsKeyOrder(r, a) ==
  LET nodes == AbsNodes(r, a)
  IN  Concat([n \in 1..Len(nodes) |->
                (IF _collect_level_paragraphs(At(r, nodes[n])) = <<>> THEN <<>>
                 ELSE << AbstractKey(r, nodes, n) >>)
                \o AbsSubKeys(r, nodes, n)])

BodyKeyOrder(r, a, walked) ==
  LET body == find(r, a, <<T_body>>)
  IN  IF body = None THEN <<>>
      ELSE (IF PrefaceOf(At(r, body).children) = <<>> THEN <<>> ELSE << K_BodyUntitled >>)
           \o Concat([k \in 1..Len(walked) |->
                        IF _collect_level_paragraphs(At(r, walked[k])) = <<>> THEN <<>>
                        ELSE << SecTitle(r, walked[k]) >>])

KeyOrder(r, a, walked) ==
  (IF _txt(r, TitleEl(r, a)) = <<>> THEN <<>> ELSE << K_Title >>)
  \o AbsKeyOrder(r, a)
  \o BodyKeyOrder(r, a, walked)

C7_Final ==
  (ret.returned /\ article # None) =>
    Keys(ret.value) = Dedup(KeyOrder(root, article, visited), {})

\* C7: the keys of the returned map are in the order in which they first
\* receive content in the traversal (title, abstracts with their subsections,
\* body preface, body sections in pre-order), and no step moves a key that
\* is already there.
C7_KeyOrder == []C7_Final /\ [][IsPrefix(Keys(out), Keys(out'))]_vars

C7_Witness ==
  /\ ret.returned
  /\ Keys(ret.value) =
       << K_Title, S_A, K_Abstract \o <<" ", "2">>, K_BodyUntitled, K_Abstract >>

\* The number of elements open after the first k tokens of toks.
OpenDepth(toks, k) ==
  Cardinality({ j \in 1..k : toks[j].k = "open" })
  - Cardinality({ j \in 1..k : toks[j].k = "close" })

\* The text is one root element with properly nested content: it starts with
\* an open tag, the root stays open up to the last token and is closed by it,
\* and every close tag names the element opened last and still open.
WellFormed(toks) ==
  LET n == Len(toks)
      depth == <<>> \o [k \in 1..n |-> OpenDepth(toks, k)]
  IN  /\ n > 0
      /\ toks[1].k = "open"
      /\ \A k \in 1..(n - 1) : depth[k] >= 1
      /\ depth[n] = 0
      /\ \A k \in 1..n :
           toks[k].k = "close" =>
             LET opens == { j \in 1..(k - 1) :
                             toks[j].k = "open" /\ depth[j] = depth[k] + 1 }
             IN  /\ opens # {}
                 /\ toks[CHOOSE m \in opens : \A j \in opens : j <= m].v = toks[k].v

\* The call has reached the parser.
Handed == pc # "get" /\ exc # "HTTPError"

C8_State ==
  (Handed /\ ~WellFormed(raw_xml)) =>
    /\ pc \in {"parse", "raised"}
    /\ pc = "parse" => ~fromstring(raw_xml).ok
    /\ pc = "raised" => exc = "ParseError"
    /\ ~ret.returned
    /\ out = <<>>

C8_Step ==
  (pc = "parse" /\ ~WellFormed(raw_xml)) =>
    (pc' = "raised" /\ exc' = "ParseError" /\ ret' = ret)

\* C8: a text that is not well-formed XML ends in a ParseError that reaches
\* the caller, through the wrappers too; no map, empty or partial, is
\* returned for it.
C8_MalformedRaises == []C8_State /\ [][C8_Step]_vars

C8_Witness ==
  /\ caller = "get_ncbi_text_my"
  /\ pc = "raised"
  /\ exc = "ParseError"
  /\ Len(raw_xml) > 1

\* No element of the tree is an article.
NoArticleElement(r) ==
  /\ ~EndsWith(r.tag, T_article)
  /\ \A k \in 1..Len(Descendants(r, <<>>)) :
       ~EndsWith(At(r, Descendants(r, <<>>)[k]).tag, T_article)

NoBody(r, a) == \A k \in 1..Len(At(r, a).children) : At(r, a).children[k].tag # T_body

\* Some step of the call can be taken: no lookup of the next step fails.
CanStep ==
  \/ pc = "parse" /\ fromstring(raw_xml).ok
  \/ pc \in {"first_article", "title", "abstract", "body", "walk", "return"}
  \/ pc = "abs_el" /\ i \in 1..Len(abs_nodes)
  \/ pc = "abs_sub" /\ subs # <<>>

C9_State ==
  (Handed /\ WellFormed(raw_xml)) =>
    /\ pc # "raised"
    /\ exc = "none"
    /\ pc = "done" => ret.returned
    /\ pc # "done" => CanStep
    /\ (pc = "done" /\ NoArticleElement(root)) => ret.value = <<>>
    /\ (article # None /\ NoBody(root, article)) => (visited = <<>> /\ pc # "walk")

C9_Step ==
  /\ (pc = "body" /\ NoBody(root, article)) => (out' = out /\ pc' = "return")
  /\ pc = "return" => (ret'.returned /\ ret'.value = out)

\* C9: once parsing succeeds the call never fails and returns a map: the
\* empty map when the document has no article element, and for a document
\* without a body exactly what the title and abstract steps produced.
C9_NeverFails == []C9_State /\ [][C9_Step]_vars

C9_Witness ==
  /\ pc = "done"
  /\ ret.returned
  /\ article # None
  /\ NoBody(root, article)
  /\ Len(ret.value) >= 3

\* C10: the title step stores Title only when the located title element (the
\* first article-title, or the translated title when there is no
\* article-title) flattens to a non-empty string; an article-title that
\* flattens to nothing gives no Title entry and no fallback.
C10_TitleStep ==
  pc = "abstract" =>
    LET ats == findall(root, article,
                       <<T_front, T_article_meta, T_title_group, T_article_title>>)
        tts == findall(root, article,
                       <<T_front, T_article_meta, T_title_group,
                         T_trans_title_group, T_trans_title>>)
        located == IF ats # <<>> THEN Head(ats)
                   ELSE IF tts # <<>> THEN Head(tts) ELSE None
        t == _txt(root, located)
    IN  /\ (ats # <<>> /\ TxtEl(At(root, Head(ats))) = <<>>) => out = <<>>
        /\ t = <<>> => out = <<>>
        /\ t # <<>> => out = << [key |-> K_Title, paras |-> << t >>] >>

C10_Witness ==
  /\ pc = "abstract"
  /\ out = <<>>
  /\ LET ats == findall(root, article,
                        <<T_front, T_article_meta, T_title_group, T_article_title>>)
         tt == find(root, article,
                    <<T_front, T_article_meta, T_title_group,
                      T_trans_title_group, T_trans_title>>)
     IN  ats # <<>> /\ tt # None /\ _txt(root, tt) # <<>>

----------------------------------------------------------------------------
\* The abstract and trans-abstract children of the first article-meta: the
\* former first, then the latter, each group in document order.
AbstractsThenTranslations(r, a) ==
  LET meta == find(r, a, <<T_front, T_article_meta>>)
      kids == IF meta = None THEN <<>> ELSE Children(r, meta)
  IN  SelectSeq(kids, LAMBDA q : At(r, q).tag = T_abstract)
      \o SelectSeq(kids, LAMBDA q : At(r, q).tag = T_trans_abstract)

\* The flattened text of the first title child of el, empty without one.
FlatTitle(el) ==
  LET ts == SelectSeq(el.children, LAMBDA c : c.tag = T_title)
  IN  IF ts = <<>> THEN <<>> ELSE TxtEl(Head(ts))

\* The key stated for the n-th of the abstract elements nodes.
StatedAbstractKey(r, nodes, n) ==
  LET t == FlatTitle(At(r, nodes[n]))
  IN  IF Len(nodes) = 1 /\ t = <<>> THEN K_Abstract
      ELSE IF t # <<>> THEN t
      ELSE K_Abstract \o <<" ">> \o Digits(n)

InAbstractLoop == pc \in {"abs_el", "abs_sub"}

C11_State ==
  /\ InAbstractLoop => abs_nodes = AbstractsThenTranslations(root, article)
  /\ InAbstractLoop => i \in 1..Len(abs_nodes)
  /\ \A n \in 1..Len(abs_nodes) :
       cur = abs_nodes[n] => ckey = StatedAbstractKey(root, abs_nodes, n)

C11_Step ==
  /\ pc = "abstract" =>
       /\ abs_nodes' = AbstractsThenTranslations(root, article)
       /\ IF abs_nodes' = <<>> THEN pc' = "body" ELSE pc' = "abs_el" /\ i' = 1
  /\ pc = "abs_el" => cur' = abs_nodes[i]
  /\ InAbstractLoop =>
       /\ pc' = "abs_el" => i' = i + 1
       /\ pc' = "abs_sub" => i' = i
       /\ pc' = "body" => i = Len(abs_nodes)

\* C11: the abstract walker takes the abstract elements of article-meta
\* first and the trans-abstract elements after them, each group in document
\* order, handles them one by one in that order, and keys the i-th of them
\* 'Abstract' when it is the only one and has no non-empty title, else by its
\* flattened title when that is non-empty, else 'Abstract i'.
C11_AbstractKeys == []C11_State /\ [][C11_Step]_vars

C11_Witness ==
  /\ Len(abs_nodes) = 2
  /\ cur = abs_nodes[2]
  /\ At(root, cur).tag = T_trans_abstract
  /\ cur[Len(cur)] < abs_nodes[1][Len(cur)]
  /\ ckey = K_Abstract \o <<" ", "2">>

----------------------------------------------------------------------------
RECURSIVE PlainText(_)
\* The text segments of el put together with nothing between them: its own
\* text, then for each child its plain text and its tail.
PlainText(el) ==
  el.text \o Concat([k \in 1..Len(el.children) |->
                       PlainText(el.children[k]) \o el.children[k].tail])

\* Every run of whitespace of s replaced by one space: a whitespace
\* character that follows another one is dropped, the others become spaces.
Squeeze(s) ==
  LET marked == [k \in 1..Len(s) |->
                   [c |-> IF s[k] \in Whitespace THEN " " ELSE s[k],
                    keep |-> ~(k > 1 /\ s[k] \in Whitespace /\ s[k - 1] \in Whitespace)]]
      kept == SelectSeq(marked, LAMBDA m : m.keep)
  IN  <<>> \o [k \in 1..Len(kept) |-> kept[k].c]

\* Runs of whitespace collapsed, leading and trailing whitespace removed.
NormalizeWS(s) == Strip(Squeeze(s))

\* The elements of the parsed tree, as paths.
Elements ==
  IF root = NoElement THEN {}
  ELSE LET ds == Descendants(root, <<>>)
       IN  { <<>> } \cup { ds[k] : k \in 1..Len(ds) }

\* C14: for every node of the parsed tree, _txt returns the whitespace
\* normalisation of the plain concatenation of the node's text segments in
\* document order, whatever the node's tag; None flattens to the empty string.
C14_PlainConcatenation ==
  /\ _txt(root, None) = <<>>
  /\ \A p \in Elements :
       LET el == At(root, p)
       IN  /\ _txt(root, p) = NormalizeWS(PlainText(el))
           /\ TxtEl([el EXCEPT !.tag = T_p]) = TxtEl(el)

----------------------------------------------------------------------------
\* Texts of whitespace only, the empty one included.
WsTexts == { <<>>, <<" ">>, S_ws }

IsWs(s) == \A k \in 1..Len(s) : s[k] \in Whitespace

\* The wrappers of el: elements whose only child is el, with whitespace at
\* most as their own text and as el's tail.
Wrappers(el) ==
  { El(T_sec, w1, << WithTail(el, w2) >>) : w1 \in WsTexts, w2 \in WsTexts }

\* C15: for every node n of a tree just parsed, n and every wrapper of n
\* flatten to the same string (for the wrappers built around n and for the
\* elements of the tree that are wrappers of their only child), and
\* normalising a flattened string again returns it unchanged.
C15_WrapperAndIdempotence ==
  pc = "first_article" =>
  \A p \in Elements :
    LET el == At(root, p)
        flat == TxtEl(el)
    IN  /\ \A w \in Wrappers(el) : TxtEl(w) = flat
        /\ (Len(el.children) = 1 /\ IsWs(el.text) /\ IsWs(el.children[1].tail))
              => flat = TxtEl(el.children[1])
        /\ NormalizeWS(flat) = flat
        /\ JoinSp(Split(flat)) = flat

\* A parsed tree with a node of mixed content whose text starts and ends with
\* whitespace, so that wrapping and trimming both matter.
C15_Witness ==
  /\ pc = "first_article"
  /\ \E p \in Elements :
       LET el == At(root, p)
       IN  /\ el.children # <<>>
           /\ el.text # <<>> /\ el.text[1] \in Whitespace
           /\ TxtEl(el) # <<>>
           /\ TxtEl(el) # JoinSp(walk(el))
           /\ \A w \in Wrappers(el) : TxtEl(w) = TxtEl(el)

----------------------------------------------------------------------------
\* A title, a label or a section, by local tag name.
IsHeadingOrSection(c) ==
  EndsWith(c.tag, T_title) \/ EndsWith(c.tag, T_label) \/ EndsWith(c.tag, T_sec)

\* The direct children of container that are content with non-empty text.
QualifyingChildren(container) ==
  SelectSeq(container.children,
            LAMBDA c : ~IsHeadingOrSection(c) /\ NormalizeWS(JoinSp(walk(c))) # <<>>)

\* One flattened text per qualifying child, in document order.
StatedLevelParagraphs(container) ==
  LET q == QualifyingChildren(container)
  IN  [k \in 1..Len(q) |-> TxtEl(q[k])]

\* C16: the paragraphs collected for a container are the flattened texts of
\* its direct children that are neither title, label nor section and do not
\* flatten to empty, in document order; the other children give nothing, and
\* a child gives the same whatever its tag outside those three.
C16_LevelParagraphs ==
  cur # None =>
    LET container == At(root, cur)
    IN  /\ paras = StatedLevelParagraphs(container)
        /\ Len(paras) <= Len(QualifyingChildren(container))
        /\ \A k \in 1..Len(container.children) :
             LET c == container.children[k]
             IN  /\ IsHeadingOrSection(c) => LevelParagraphOf(c) = <<>>
                 /\ ~IsHeadingOrSection(c) =>
                      LevelParagraphOf(c) = LevelParagraphOf([c EXCEPT !.tag = T_p])

\* A section with a title, a figure and a paragraph, of
\* which the figure and the paragraph are collected.
C16_Witness ==
  /\ cur # None
  /\ Len(paras) = 2
  /\ LET cs == At(root, cur).children
     IN  /\ \E k \in 1..Len(cs) : cs[k].tag = T_fig
         /\ \E k \in 1..Len(cs) : cs[k].tag = T_title
         /\ Len(cs) > 2

----------------------------------------------------------------------------
\* The position of the first section among the elements kids, Len(kids) + 1
\* without one.
RECURSIVE FirstSection(_, _)
FirstSection(kids, n) ==
  IF n > Len(kids) \/ EndsWith(kids[n].tag, T_sec) THEN n
  ELSE FirstSection(kids, n + 1)

\* The flattened non-empty texts of the children of body that precede its
\* first section, titles left out.
StatedPreface(body) ==
  LET pre == SubSeq(body.children, 1, FirstSection(body.children, 1) - 1)
      q == SelectSeq(pre, LAMBDA c : ~EndsWith(c.tag, T_title) /\ TxtEl(c) # <<>>)
  IN  [k \in 1..Len(q) |-> TxtEl(q[k])]

RECURSIVE TotalParas(_)
\* The number of paragraph strings of a map.
TotalParas(store) ==
  IF store = <<>> THEN 0 ELSE Len(Head(store).paras) + TotalParas(Tail(store))

RECURSIVE CollectedBy(_, _)
\* The number of paragraph strings at the own level of the sections ps of r.
CollectedBy(r, ps) ==
  IF ps = <<>> THEN 0
  ELSE Len(StatedLevelParagraphs(At(r, Head(ps)))) + CollectedBy(r, Tail(ps))

\* C17: in the map returned for an article with a body, the children of the
\* body before its first section, titles left out, are stored one string per
\* non-empty child under 'Body (untitled)', which is absent when there is
\* none; the other strings of a map built from the body alone all come from
\* visited sections; and the body child that ended the preface scan as a
\* section has been visited by the section walk.
C17_PrefaceByPosition ==
  (ret.returned /\ article # None /\ find(root, article, <<T_body>>) # None) =>
    LET body == At(root, find(root, article, <<T_body>>))
        pre == StatedPreface(body)
        n == FirstSection(body.children, 1)
        bodyOnly == find(root, article, <<T_front>>) = None
    IN  /\ bodyOnly =>
             IF pre # <<>> THEN Get(ret.value, K_BodyUntitled) = pre
             ELSE ~HasKey(ret.value, K_BodyUntitled)
        /\ bodyOnly => TotalParas(ret.value) = Len(pre) + CollectedBy(root, visited)
        /\ n <= Len(body.children) =>
             \E k \in 1..Len(visited) :
               visited[k] = Append(find(root, article, <<T_body>>), n)

----------------------------------------------------------------------------
\* The map store with the strings ps appended under key k, a new last key
\* when k is not in it.
AppendUnder(store, k, ps) ==
  IF \E j \in 1..Len(store) : store[j].key = k
  THEN [j \in 1..Len(store) |->
          IF store[j].key = k
          THEN [key |-> k, paras |-> store[j].paras \o ps] ELSE store[j]]
  ELSE Append(store, [key |-> k, paras |-> ps])

RECURSIVE Contribute(_, _)
\* The map store after the contributions cs, those without strings left out.
Contribute(store, cs) ==
  IF cs = <<>> THEN store
  ELSE Contribute(IF Head(cs).paras = <<>> THEN store
                  ELSE AppendUnder(store, Head(cs).key, Head(cs).paras),
                  Tail(cs))

\* What an abstract element el with key K contributes: its own paragraphs
\* under K, then the own paragraphs of each section that is its direct child,
\* under the section's flattened title or under 'K subsection'.
ContributionsOf(el, K) ==
  LET ss == SelectSeq(el.children, LAMBDA c : EndsWith(c.tag, T_sec))
  IN  << [key |-> K, paras |-> StatedLevelParagraphs(el)] >>
      \o [k \in 1..Len(ss) |->
            [key |-> IF FlatTitle(ss[k]) # <<>> THEN FlatTitle(ss[k])
                     ELSE K \o K_subsection,
             paras |-> StatedLevelParagraphs(ss[k])]]

\* el with the sections two or more levels below it emptied.
WithoutDeepSecs(el) ==
  [el EXCEPT !.children = [k \in 1..Len(el.children) |->
                             WithoutNestedSecs(el.children[k])]]

\* The map of the title step.
TitleMap ==
  LET t == _txt(root, TitleEl(root, article))
  IN  IF t = <<>> THEN <<>> ELSE << [key |-> K_Title, paras |-> << t >>] >>

\* The abstract loop is at an abstract element or at a section that is a
\* direct child of one, filed under its title or under 'K subsection'.
C18_Walked ==
  (InAbstractLoop /\ cur # None) =>
    \E n \in 1..Len(abs_nodes) :
      \/ cur = abs_nodes[n]
      \/ /\ SubSeq(cur, 1, Len(cur) - 1) = abs_nodes[n]
         /\ EndsWith(At(root, cur).tag, T_sec)
         /\ ckey = IF FlatTitle(At(root, cur)) # <<>> THEN FlatTitle(At(root, cur))
                   ELSE StatedAbstractKey(root, abs_nodes, n) \o K_subsection

\* When the abstract walker is done the map is the title entry followed by
\* the contributions of the abstract elements in order.
C18_Entries ==
  pc = "body" =>
    out = Contribute(TitleMap,
                     Concat([n \in 1..Len(abs_nodes) |->
                               ContributionsOf(At(root, abs_nodes[n]),
                                               StatedAbstractKey(root, abs_nodes, n))]))

\* C18: each abstract element gives its own-level paragraphs under its key K
\* and then those of its direct section children, walked in document order,
\* under their titles or 'K subsection'; what has no paragraphs gives no
\* entry; and the sections two or more levels below an abstract contribute
\* to no entry: the map is the one of the abstracts with those sections
\* emptied.
C18_AbstractSections ==
  /\ C18_Walked
  /\ C18_Entries
  /\ pc = "body" =>
       out = Contribute(TitleMap,
                        Concat([n \in 1..Len(abs_nodes) |->
                                  ContributionsOf(WithoutDeepSecs(At(root, abs_nodes[n])),
                                                  StatedAbstractKey(root, abs_nodes, n))]))

----------------------------------------------------------------------------
\* C12: when fetch is called with a max_records value N, records_fetched
\* never exceeds N and output_dir never holds more than N record files.
C12_AtMostN ==
  max_arg # NoLimit =>
    /\ records_fetched <= max_arg[1]
    /\ Cardinality(files) <= max_arg[1]

----------------------------------------------------------------------------
\* The gene ids of the rows, in order.
GeneIds(rows) == [k \in 1..Len(rows) |-> rows[k].gene_id]

\* The rows of the output file that were not in it when the run started.
NewRows == SelectSeq(parquet, LAMBDA row : row.gene_id \notin done_ids)

\* The ids of the run's input that were not done when it started.
NotSkipped == SelectSeq(gene_series, LAMBDA g : g \notin done_ids)

\* The size of a full batch.
FullBatch == IF batch_size > 1 THEN batch_size ELSE 1

C13_State ==
  /\ \A a, b \in 1..Len(parquet) : a # b => parquet[a].gene_id # parquet[b].gene_id
  /\ done_ids \subseteq { parquet[k].gene_id : k \in 1..Len(parquet) }
  /\ requested \cap done_ids = {}
  /\ notes_pc = "loop" =>
       /\ \A k \in 1..Len(rows_buffer) : rows_buffer[k].gene_id \notin done_ids
       /\ Len(rows_buffer) < FullBatch
  /\ notes_pc = "done" =>
       /\ GeneIds(NewRows) = NotSkipped
       /\ requested = { NotSkipped[k] : k \in 1..Len(NotSkipped) }

C13_Step ==
  /\ IsPrefix(parquet, parquet')
  /\ (notes_pc = "loop" /\ notes_pc' = "loop") =>
       /\ gene_series[gidx] \in done_ids =>
            /\ parquet' = parquet
            /\ rows_buffer' = rows_buffer
            /\ requested' = requested
       /\ gene_series[gidx] \notin done_ids =>
            /\ requested' = requested \cup { gene_series[gidx] }
            /\ GeneIds(parquet' \o rows_buffer')
                 = GeneIds(parquet \o rows_buffer) \o << gene_series[gidx] >>
       /\ parquet' # parquet =>
            /\ Len(parquet') = Len(parquet) + FullBatch
            /\ rows_buffer' = <<>>
  /\ (notes_pc = "loop" /\ notes_pc' = "done") => parquet' = parquet \o rows_buffer
  /\ (notes_pc = "loop" /\ notes_pc' = "interrupted") => parquet' = parquet

\* C13: over any sequence of runs on one output file, interrupted ones
\* included, the ids in the file when a run starts are neither requested nor
\* written again by it, so the file never holds a gene_id twice; a run that
\* completes has written every id of its input that was not skipped exactly
\* once, failed requests included, in full batches of batch_size during the
\* loop and the remainder in the final flush.
C13_Resumable == []C13_State /\ [][C13_Step]_notesVars

\* A second run has completed on an output file that held two ids when it
\* started: it skipped those two and wrote the third, whose request failed.
C13_Witness ==
  /\ notes_pc = "done"
  /\ runs = 2
  /\ Cardinality(done_ids) = 2
  /\ skipped = 2
  /\ processed = 1
  /\ Len(parquet) = 3
  /\ parquet[3].curator_notes_html = NoValue

====
